---- MODULE Spec2Model ----
(***************************************************************************)
(* Model of the duplicate detection and allowlist protocol of the Apple    *)
(* Music duplicate finder (analyze_library.py, evaluate_duplicates.py).    *)
(*                                                                         *)
(* Representation of the Python values:                                    *)
(*   - a str that the code takes apart (a location URI, a track id that    *)
(*     is sorted) is a sequence of one-character strings / of digits;      *)
(*   - a dict is a function whose DOMAIN is the set of its keys, so that   *)
(*     `k in d` is  k \in DOMAIN d  and d.get(k, v) is get(d, k, v);       *)
(*   - an insertion-ordered dict that is iterated (tracks, the group       *)
(*     mappings) is the sequence of its items;                             *)
(*   - a file is a record: exists, valid (parses as JSON), json (content). *)
(***************************************************************************)
EXTENDS Integers, Sequences, FiniteSets

VARIABLES
    tracks,          \* library['Tracks'].items(): sequence of [id, rec]
    library_exists,  \* the library XML file is on disk
    allowlist_file,  \* the allowlist JSON file on disk
    metadata_file,   \* output/metadata_duplicates.json
    location_file,   \* output/location_duplicates.json
    mode,            \* the process that is running: "idle", "text", "arrow"
    duplicates_path, \* the duplicates file the review session was given
    duplicate_groups,\* the groups the review session loaded
    duplicate_type,  \* the allowlist partition the review session targets
    group_index,     \* text review: index i of the group being presented
    current_pos,     \* arrow review: cursor
    marked_groups,   \* arrow review: set of marked indexes
    exit_status,     \* how the last process ended
    call,            \* the last add_to_allowlist call: arguments, file before
    accepted,        \* history: the metadata groups passed to add_to_allowlist
    pending,         \* the last open(allowlist_path, 'w'): file before, content
    root,            \* the library XML: its dict elements in document order
    duplicates_json, \* the duplicates JSON given to the evaluation
    existing_paths,  \* the paths for which os.path.exists is true
    evaluation_file, \* the file save_evaluation writes
    html_file        \* the HTML report: its group count and its sections

session == <<mode, duplicates_path, duplicate_groups, duplicate_type,
             group_index, current_pos, marked_groups>>

evaluation == <<root, duplicates_json, existing_paths, evaluation_file,
                html_file>>

vars == <<tracks, library_exists, allowlist_file, metadata_file, location_file, session,
          exit_status, call, accepted, pending, evaluation>>

----------------------------------------------------------------------------
(* Python built-ins and library functions the code relies on *)

\* dict.get(k, default)
get(d, k, default) == IF k \in DOMAIN d THEN d[k] ELSE default

SetMax(S) == CHOOSE m \in S : \A x \in S : x <= m
SetMin(S) == CHOOSE m \in S : \A x \in S : m <= x

\* str.rfind(c), 1-based, 0 when c does not occur
rfind(p, c) == SetMax({i \in 1..Len(p) : p[i] = c} \cup {0})

\* os.path.splitext(p)[1]: the text from the last dot of the last path
\* component, unless that component has only leading dots before it
splitext_ext(p) ==
    LET sepIndex == rfind(p, "/")
        dotIndex == rfind(p, ".")
    IN  IF dotIndex > sepIndex
           /\ \E k \in (sepIndex + 1)..(dotIndex - 1) : p[k] # "."
        THEN SubSeq(p, dotIndex, Len(p))
        ELSE <<>>

\* str.lower() on the alphabet of the model
lower_char(c) ==
    IF c = "M" THEN "m" ELSE IF c = "F" THEN "f" ELSE IF c = "Y" THEN "y" ELSE c
lower(s) == [i \in 1..Len(s) |-> lower_char(s[i])]

\* str < str (lexicographic on the characters; ids are digit strings)
str_less(a, b) ==
    LET n    == IF Len(a) < Len(b) THEN Len(a) ELSE Len(b)
        diff == {i \in 1..n : a[i] # b[i]}
    IN  IF diff = {} THEN Len(a) < Len(b)
        ELSE a[SetMin(diff)] < b[SetMin(diff)]

\* sorted(list of str): insertion of each element before the first greater one
RECURSIVE insert_sorted(_, _)
insert_sorted(x, s) ==
    IF s = <<>> THEN <<x>>
    ELSE IF str_less(x, Head(s)) THEN <<x>> \o s
    ELSE <<Head(s)>> \o insert_sorted(x, Tail(s))

RECURSIVE sorted(_)
sorted(s) ==
    IF s = <<>> THEN <<>>
    ELSE insert_sorted(s[Len(s)], sorted(SubSeq(s, 1, Len(s) - 1)))

\* x in list  (element equality, i.e. sequence equality for lists)
list_contains(l, x) == \E i \in 1..Len(l) : l[i] = x

\* truth value of a dict: non-empty
truthy(d) == DOMAIN d # {}

Range(s) == {s[i] : i \in 1..Len(s)}

----------------------------------------------------------------------------
(* analyze_library.py *)

EmptyAllowlist == [metadata_duplicates |-> <<>>, location_duplicates |-> <<>>]

\* load_allowlist: the parsed file, or the empty allowlist when the file is
\* missing or is not valid JSON; the file is only read
load_allowlist(file) ==
    IF file.exists
    THEN IF file.valid THEN file.json ELSE EmptyAllowlist
    ELSE EmptyAllowlist

\* mutant: the extension is not lower-cased
file_extension_raw(track) == splitext_ext(get(track, "Location", <<>>))

\* the file_extension of find_duplicates_by_metadata
file_extension(track) == lower(splitext_ext(get(track, "Location", <<>>)))

\* the metadata_key tuple of find_duplicates_by_metadata
metadata_key(track) ==
    << get(track, "Name", ""),
       get(track, "Artist", ""),
       get(track, "Album", ""),
       get(track, "TotalTime", 0),
       file_extension(track) >>

\* the record appended to a metadata group
metadata_entry(track_id, track) ==
    [ TrackID       |-> track_id,
      Name          |-> get(track, "Name", "Unknown"),
      Artist        |-> get(track, "Artist", "Unknown"),
      Album         |-> get(track, "Album", "Unknown"),
      Location      |-> get(track, "Location", <<>>),
      FileExtension |-> file_extension(track) ]

\* the record appended to a location group (it carries no Location)
location_entry(track_id, track) ==
    [ TrackID |-> track_id,
      Name    |-> get(track, "Name", "Unknown"),
      Artist  |-> get(track, "Artist", "Unknown"),
      Album   |-> get(track, "Album", "Unknown") ]

\* defaultdict(list)[key].append(entry) on the sequence of items
group_append(groups, key, entry) ==
    IF \E j \in 1..Len(groups) : groups[j].key = key
    THEN [j \in 1..Len(groups) |->
             IF groups[j].key = key
             THEN [groups[j] EXCEPT !.tracks = Append(@, entry)]
             ELSE groups[j]]
    ELSE Append(groups, [key |-> key, tracks |-> <<entry>>])

\* mutant: tracks without Location are not skipped
RECURSIVE metadata_groups_noskip(_, _)
metadata_groups_noskip(items, n) ==
    IF n = 0 THEN <<>>
    ELSE group_append(metadata_groups_noskip(items, n - 1),
                      metadata_key(items[n].rec),
                      metadata_entry(items[n].id, items[n].rec))

\* the loop of find_duplicates_by_metadata over tracks.items()
RECURSIVE metadata_groups(_, _)
metadata_groups(items, n) ==
    IF n = 0 THEN <<>>
    ELSE LET prev  == metadata_groups(items, n - 1)
             track == items[n].rec
         IN  IF "Location" \notin DOMAIN track THEN prev
             ELSE group_append(prev, metadata_key(track),
                               metadata_entry(items[n].id, track))

\* the loop of find_duplicates_by_location over tracks.items()
RECURSIVE location_groups(_, _)
location_groups(items, n) ==
    IF n = 0 THEN <<>>
    ELSE LET prev  == location_groups(items, n - 1)
             track == items[n].rec
         IN  IF "Location" \notin DOMAIN track THEN prev
             ELSE group_append(prev, track["Location"],
                               location_entry(items[n].id, track))

\* [track['Track ID'] for track in tracks]
track_ids_of(group_tracks) ==
    [i \in 1..Len(group_tracks) |-> group_tracks[i].TrackID]

\* groups with more than one track
more_than_one(groups) == SelectSeq(groups, LAMBDA g : Len(g.tracks) > 1)

\* mutant: an entry whose identifiers are all in the group allows the group
metadata_not_allowed_subset(group_tracks, allowlist) ==
    ~ \E n \in 1..Len(allowlist["metadata_duplicates"]) :
          Range(allowlist["metadata_duplicates"][n])
              \subseteq Range(track_ids_of(group_tracks))

\* `track_ids not in allowlist['metadata_duplicates']` of the metadata filter
metadata_not_allowed(group_tracks, allowlist) ==
    ~ list_contains(allowlist["metadata_duplicates"],
                    sorted(track_ids_of(group_tracks)))

\* mutant: the location filter looks into both partitions
location_not_allowed_any(group_tracks, allowlist) ==
    /\ ~ list_contains(get(allowlist, "location_duplicates", <<>>),
                       sorted(track_ids_of(group_tracks)))
    /\ ~ list_contains(get(allowlist, "metadata_duplicates", <<>>),
                       sorted(track_ids_of(group_tracks)))

\* `track_ids not in allowlist['location_duplicates']` of the location filter
location_not_allowed(group_tracks, allowlist) ==
    ~ list_contains(allowlist["location_duplicates"],
                    sorted(track_ids_of(group_tracks)))

find_duplicates_by_metadata(items, allowlist) ==
    LET duplicates == more_than_one(metadata_groups(items, Len(items)))
    IN  IF truthy(allowlist) /\ "metadata_duplicates" \in DOMAIN allowlist
        THEN SelectSeq(duplicates,
                       LAMBDA g : metadata_not_allowed(g.tracks, allowlist))
        ELSE duplicates

find_duplicates_by_location(items, allowlist) ==
    LET duplicates == more_than_one(location_groups(items, Len(items)))
    IN  IF truthy(allowlist) /\ "location_duplicates" \in DOMAIN allowlist
        THEN SelectSeq(duplicates,
                       LAMBDA g : location_not_allowed(g.tracks, allowlist))
        ELSE duplicates

\* generate_report: the metadata report object
metadata_report(metadata_duplicates) ==
    [ report_type            |-> "Duplicate Tracks with Different Locations",
      total_duplicate_groups |-> Len(metadata_duplicates),
      duplicate_groups       |->
          [i \in 1..Len(metadata_duplicates) |->
              [ name           |-> metadata_duplicates[i].key[1],
                artist         |-> metadata_duplicates[i].key[2],
                album          |-> metadata_duplicates[i].key[3],
                duration       |-> metadata_duplicates[i].key[4],
                file_extension |-> metadata_duplicates[i].key[5],
                tracks         |-> metadata_duplicates[i].tracks ]] ]

\* generate_report: the location report object
location_report(location_duplicates) ==
    [ report_type            |-> "Multiple Entries with Same Location",
      total_duplicate_groups |-> Len(location_duplicates),
      duplicate_groups       |->
          [i \in 1..Len(location_duplicates) |->
              [ location |-> location_duplicates[i].key,
                tracks   |-> location_duplicates[i].tracks ]] ]

NoCall == [made |-> FALSE]

NoPending == [state |-> "none"]

MissingFile == [exists |-> FALSE, valid |-> FALSE, json |-> <<>>]
\* a file that does not parse as JSON (garbage, or empty after open(.., 'w'))
InvalidFile == [exists |-> TRUE, valid |-> FALSE, json |-> <<>>]
JsonFile(obj) == [exists |-> TRUE, valid |-> TRUE, json |-> obj]

\* no HTML report has been written
NoReport == [exists |-> FALSE]

\* no evaluation has been started: no inputs, no outputs
NoEvaluation ==
    /\ root = <<>>
    /\ duplicates_json = MissingFile
    /\ existing_paths = {}
    /\ evaluation_file = MissingFile
    /\ html_file = NoReport

\* mutant: the run saves the allowlist it loaded when the file was unusable
AnalysisRunSaves ==
    LET allowlist == load_allowlist(allowlist_file)
        metadata_duplicates == find_duplicates_by_metadata(tracks, allowlist)
        location_duplicates == find_duplicates_by_location(tracks, allowlist)
    IN  /\ mode = "idle"
        /\ call' = NoCall
        /\ pending' = NoPending
        /\ allowlist_file' = IF allowlist_file.exists /\ allowlist_file.valid
                             THEN allowlist_file
                             ELSE JsonFile(allowlist)
        /\ UNCHANGED <<tracks, library_exists, session, accepted, evaluation>>
        /\ IF ~ library_exists
           THEN /\ exit_status' = "exit1"
                /\ UNCHANGED <<metadata_file, location_file>>
           ELSE /\ metadata_file' =
                      JsonFile(metadata_report(metadata_duplicates))
                /\ location_file' =
                      JsonFile(location_report(location_duplicates))
                /\ exit_status' = "ok"

\* analyze_library.main: load the allowlist, load the library (a missing
\* library file ends the process with status 1), group, write both reports
AnalysisRun ==
    LET allowlist == load_allowlist(allowlist_file)
        metadata_duplicates == find_duplicates_by_metadata(tracks, allowlist)
        location_duplicates == find_duplicates_by_location(tracks, allowlist)
    IN  /\ mode = "idle"
        /\ call' = NoCall
        /\ pending' = NoPending
        /\ UNCHANGED <<tracks, library_exists, allowlist_file, session,
                       accepted, evaluation>>
        /\ IF ~ library_exists
           THEN /\ exit_status' = "exit1"
                /\ UNCHANGED <<metadata_file, location_file>>
           ELSE /\ metadata_file' =
                      JsonFile(metadata_report(metadata_duplicates))
                /\ location_file' =
                      JsonFile(location_report(location_duplicates))
                /\ exit_status' = "ok"

----------------------------------------------------------------------------
(* evaluate_duplicates.py: the allowlist mutation protocol *)

\* the "Load existing allowlist" block of add_to_allowlist and of the arrow UI
load_existing_allowlist(file) ==
    IF file.exists
    THEN IF file.valid THEN file.json ELSE EmptyAllowlist
    ELSE EmptyAllowlist

\* mutant: the partition is started afresh on every call
ensure_duplicate_type_reset(allowlist, type) ==
    [k \in DOMAIN allowlist \cup {type} |->
        IF k = type THEN <<>> ELSE allowlist[k]]

\* if duplicate_type not in allowlist: allowlist[duplicate_type] = []
ensure_duplicate_type(allowlist, type) ==
    IF type \in DOMAIN allowlist THEN allowlist
    ELSE [k \in DOMAIN allowlist \cup {type} |->
             IF k = type THEN <<>> ELSE allowlist[k]]

\* mutant: the stored entry is compared as it is, without sorting it
already_in_allowlist_unsorted(entries, sorted_track_ids) ==
    \E n \in 1..Len(entries) : entries[n] = sorted_track_ids

\* mutant: an entry that contains the track ids counts as a match
already_in_allowlist_subset(entries, sorted_track_ids) ==
    \E n \in 1..Len(entries) : Range(sorted_track_ids) \subseteq Range(entries[n])

\* the loop comparing sorted(existing_ids) with the sorted track ids
already_in_allowlist(entries, sorted_track_ids) ==
    \E n \in 1..Len(entries) : sorted(entries[n]) = sorted_track_ids

\* mutant: the call returns without writing
add_to_allowlist_nowrite(track_ids, file, type) == file

\* add_to_allowlist: the allowlist file after the call
add_to_allowlist(track_ids, file, type) ==
    LET allowlist        == ensure_duplicate_type(load_existing_allowlist(file),
                                                  type)
        sorted_track_ids == sorted(track_ids)
    IN  IF already_in_allowlist(allowlist[type], sorted_track_ids)
        THEN file
        ELSE JsonFile([allowlist EXCEPT ![type] =
                           Append(@, sorted_track_ids)])

\* "Determine the structure of the duplicates file" (both review UIs)
groups_of(duplicates) ==
    IF "duplicate_groups" \in DOMAIN duplicates
    THEN duplicates["duplicate_groups"]
    ELSE duplicates

type_of(duplicates) ==
    IF "duplicate_groups" \in DOMAIN duplicates
    THEN "metadata_duplicates"
    ELSE "location_duplicates"

\* tracks = group["tracks"] if "tracks" in group else group
tracks_of(group) == IF "tracks" \in DOMAIN group THEN group["tracks"] ELSE group

DuplicatesFile(path) ==
    IF path = "metadata_file" THEN metadata_file ELSE location_file

SessionIdle ==
    /\ mode = "idle"
    /\ duplicates_path = "none"
    /\ duplicate_groups = <<>>
    /\ duplicate_type = "none"
    /\ group_index = 0
    /\ current_pos = 0
    /\ marked_groups = {}

\* the process of a review session returns: its locals are gone
EndSession ==
    /\ mode' = "idle"
    /\ duplicates_path' = "none"
    /\ duplicate_groups' = <<>>
    /\ duplicate_type' = "none"
    /\ group_index' = 0
    /\ current_pos' = 0
    /\ marked_groups' = {}

\* history of the groups of the metadata report that were passed to
\* add_to_allowlist for the partition metadata_duplicates
Accept(path, type, track_ids) ==
    IF path = "metadata_file" /\ type = "metadata_duplicates"
    THEN accepted \cup {Range(track_ids)}
    ELSE accepted

\* interactive_allowlist_manager up to the first prompt
TextStart(path) ==
    /\ UNCHANGED evaluation
    /\ mode = "idle"
    /\ LET duplicates == DuplicatesFile(path).json
           groups     == groups_of(duplicates)
       IN  IF ~ DuplicatesFile(path).exists
           THEN \* load_duplicates: sys.exit(1)
                /\ EndSession
                /\ exit_status' = "exit1"
           ELSE IF Len(groups) = 0
           THEN /\ EndSession
                /\ exit_status' = "ok"
           ELSE /\ mode' = "text"
                /\ duplicates_path' = path
                /\ duplicate_groups' = groups
                /\ duplicate_type' = type_of(duplicates)
                /\ group_index' = 0
                /\ exit_status' = "none"
                /\ UNCHANGED <<current_pos, marked_groups>>
    /\ call' = NoCall
    /\ pending' = NoPending
    /\ UNCHANGED <<tracks, library_exists, allowlist_file, metadata_file, location_file,
                   accepted>>

\* one answer to "Add this group to allowlist? (y/n/q to quit)"
TextAnswer(input) ==
    /\ UNCHANGED evaluation
    /\ mode = "text"
    /\ LET choice    == lower_char(input)
           group     == duplicate_groups[group_index + 1]
           track_ids == track_ids_of(tracks_of(group))
           last      == group_index + 1 = Len(duplicate_groups)
       IN  /\ IF choice = "y"
              THEN /\ allowlist_file' =
                         add_to_allowlist(track_ids, allowlist_file,
                                          duplicate_type)
                   /\ call' = [made |-> TRUE, track_ids |-> track_ids,
                               type |-> duplicate_type,
                               before |-> allowlist_file]
                   /\ accepted' = Accept(duplicates_path, duplicate_type,
                                         track_ids)
              ELSE /\ UNCHANGED <<allowlist_file, accepted>>
                   /\ call' = NoCall
           /\ IF choice = "q" \/ last
              THEN /\ EndSession
                   /\ exit_status' = "ok"
              ELSE /\ group_index' = group_index + 1
                   /\ exit_status' = "none"
                   /\ UNCHANGED <<mode, duplicates_path, duplicate_groups,
                                  duplicate_type, current_pos, marked_groups>>
    /\ pending' = NoPending
    /\ UNCHANGED <<tracks, library_exists, metadata_file, location_file>>

\* the orders in which a set can be iterated
Orders(S) ==
    {f \in [1..Cardinality(S) -> S] :
        \A a, b \in 1..Cardinality(S) : f[a] = f[b] => a = b}

\* s lists the same identifiers as t, in some order
same_ids(s, t) == Len(s) = Len(t) /\ Range(s) = Range(t)

\* a direct call add_to_allowlist(track_ids, allowlist_path, duplicate_type)
\* for a group of one of the reports, its identifiers in any order
AddToAllowlist(path, track_ids, type) ==
    /\ UNCHANGED evaluation
    /\ mode = "idle"
    /\ DuplicatesFile(path).exists
    /\ \E g \in 1..Len(groups_of(DuplicatesFile(path).json)) :
          same_ids(track_ids, track_ids_of(tracks_of(
                       groups_of(DuplicatesFile(path).json)[g])))
    /\ allowlist_file' = add_to_allowlist(track_ids, allowlist_file, type)
    /\ call' = [made |-> TRUE, track_ids |-> track_ids, type |-> type,
                before |-> allowlist_file]
    /\ accepted' = Accept(path, type, track_ids)
    /\ pending' = NoPending
    /\ exit_status' = "ok"
    /\ UNCHANGED <<tracks, library_exists, metadata_file, location_file, session>>

\* interactive_arrow_allowlist_manager up to the first getch()
ArrowStart(path) ==
    /\ UNCHANGED evaluation
    /\ mode = "idle"
    /\ IF ~ DuplicatesFile(path).exists
       THEN \* load_duplicates: sys.exit(1)
            /\ EndSession
            /\ exit_status' = "exit1"
       ELSE /\ mode' = "arrow"
            /\ duplicates_path' = path
            /\ duplicate_groups' = groups_of(DuplicatesFile(path).json)
            /\ duplicate_type' = type_of(DuplicatesFile(path).json)
            /\ current_pos' = 0
            /\ marked_groups' = {}
            /\ exit_status' = "none"
    /\ call' = NoCall
    /\ pending' = NoPending
    /\ UNCHANGED <<tracks, library_exists, allowlist_file, metadata_file, location_file,
                   group_index, accepted>>

\* mutant: the identifiers of a marked group are stored in report order
RECURSIVE add_marked_groups_unsorted(_, _, _, _, _)
add_marked_groups_unsorted(allowlist, groups, type, order, n) ==
    IF n = 0 THEN allowlist
    ELSE LET prev      == add_marked_groups_unsorted(allowlist, groups, type,
                                                     order, n - 1)
             track_ids == track_ids_of(tracks_of(groups[order[n] + 1]))
         IN  IF already_in_allowlist(prev[type], sorted(track_ids))
             THEN prev
             ELSE [prev EXCEPT ![type] = Append(@, track_ids)]

\* "Add marked groups to allowlist": the loop over marked_groups, from its
\* n-th last element on (idx is a 0-based index into duplicate_groups)
RECURSIVE add_marked_groups(_, _, _, _, _)
add_marked_groups(allowlist, groups, type, order, n) ==
    IF n = 0 THEN allowlist
    ELSE LET prev      == add_marked_groups(allowlist, groups, type, order,
                                            n - 1)
             track_ids == sorted(track_ids_of(tracks_of(groups[order[n] + 1])))
         IN  IF already_in_allowlist(prev[type], track_ids)
             THEN prev
             ELSE [prev EXCEPT ![type] = Append(@, track_ids)]

\* the save of main_curses: the allowlist file after it, the marked
\* indexes being iterated in the given order
save_marked_groups(file, groups, type, order) ==
    JsonFile(add_marked_groups(
                 ensure_duplicate_type(load_existing_allowlist(file), type),
                 groups, type, order, Len(order)))

Keys == {"UP", "DOWN", "SPACE", "ENTER", "q", "other"}

\* mutant: 'q' saves the marked groups too
ArrowKeySavesOnQuit(key) ==
    /\ UNCHANGED evaluation
    /\ mode = "arrow"
    /\ call' = NoCall
    /\ pending' = NoPending
    /\ UNCHANGED <<tracks, library_exists, metadata_file, location_file, accepted>>
    /\ IF key = "UP" /\ current_pos > 0
       THEN /\ current_pos' = current_pos - 1
            /\ UNCHANGED <<mode, duplicates_path, duplicate_groups,
                           duplicate_type, group_index, marked_groups,
                           allowlist_file, exit_status>>
       ELSE IF key = "DOWN" /\ current_pos < Len(duplicate_groups) - 1
       THEN /\ current_pos' = current_pos + 1
            /\ UNCHANGED <<mode, duplicates_path, duplicate_groups,
                           duplicate_type, group_index, marked_groups,
                           allowlist_file, exit_status>>
       ELSE IF key = "SPACE"
       THEN /\ marked_groups' =
                  IF current_pos \in marked_groups
                  THEN marked_groups \ {current_pos}
                  ELSE marked_groups \cup {current_pos}
            /\ UNCHANGED <<mode, duplicates_path, duplicate_groups,
                           duplicate_type, group_index, current_pos,
                           allowlist_file, exit_status>>
       ELSE IF key = "ENTER"
       THEN IF marked_groups = {}
            THEN /\ EndSession
                 /\ exit_status' = "ok"
                 /\ UNCHANGED allowlist_file
            ELSE IF \E idx \in marked_groups : idx >= Len(duplicate_groups)
            THEN \* duplicate_groups[idx] raises IndexError before the save
                 /\ EndSession
                 /\ exit_status' = "IndexError"
                 /\ UNCHANGED allowlist_file
            ELSE /\ \E order \in Orders(marked_groups) :
                       allowlist_file' =
                           save_marked_groups(allowlist_file, duplicate_groups,
                                              duplicate_type, order)
                 /\ EndSession
                 /\ exit_status' = "saved"
       ELSE IF key = "q"
       THEN /\ EndSession
            /\ exit_status' = "ok"
            /\ \E order \in Orders({idx \in marked_groups :
                                       idx < Len(duplicate_groups)}) :
                  allowlist_file' =
                      save_marked_groups(allowlist_file, duplicate_groups,
                                         duplicate_type, order)
       ELSE UNCHANGED <<session, allowlist_file, exit_status>>

\* one key event of main_curses; ENTER leaves the loop and saves
\* (top_line only selects the lines that are drawn and is left out)
ArrowKey(key) ==
    /\ UNCHANGED evaluation
    /\ mode = "arrow"
    /\ call' = NoCall
    /\ pending' = NoPending
    /\ UNCHANGED <<tracks, library_exists, metadata_file, location_file, accepted>>
    /\ IF key = "UP" /\ current_pos > 0
       THEN /\ current_pos' = current_pos - 1
            /\ UNCHANGED <<mode, duplicates_path, duplicate_groups,
                           duplicate_type, group_index, marked_groups,
                           allowlist_file, exit_status>>
       ELSE IF key = "DOWN" /\ current_pos < Len(duplicate_groups) - 1
       THEN /\ current_pos' = current_pos + 1
            /\ UNCHANGED <<mode, duplicates_path, duplicate_groups,
                           duplicate_type, group_index, marked_groups,
                           allowlist_file, exit_status>>
       ELSE IF key = "SPACE"
       THEN /\ marked_groups' =
                  IF current_pos \in marked_groups
                  THEN marked_groups \ {current_pos}
                  ELSE marked_groups \cup {current_pos}
            /\ UNCHANGED <<mode, duplicates_path, duplicate_groups,
                           duplicate_type, group_index, current_pos,
                           allowlist_file, exit_status>>
       ELSE IF key = "ENTER"
       THEN IF marked_groups = {}
            THEN /\ EndSession
                 /\ exit_status' = "ok"
                 /\ UNCHANGED allowlist_file
            ELSE IF \E idx \in marked_groups : idx >= Len(duplicate_groups)
            THEN \* duplicate_groups[idx] raises IndexError before the save
                 /\ EndSession
                 /\ exit_status' = "IndexError"
                 /\ UNCHANGED allowlist_file
            ELSE /\ \E order \in Orders(marked_groups) :
                       allowlist_file' =
                           save_marked_groups(allowlist_file, duplicate_groups,
                                              duplicate_type, order)
                 /\ EndSession
                 /\ exit_status' = "saved"
       ELSE IF key = "q"
       THEN /\ EndSession
            /\ exit_status' = "ok"
            /\ UNCHANGED allowlist_file
       ELSE UNCHANGED <<session, allowlist_file, exit_status>>

----------------------------------------------------------------------------
(* The save, step by step: open(allowlist_path, 'w') empties the file, then
   json.dump writes the allowlist into it *)

\* add_to_allowlist up to `with open(allowlist_path, 'w')`
AddOpen(path, track_ids, type) ==
    /\ UNCHANGED evaluation
    /\ mode = "idle"
    /\ DuplicatesFile(path).exists
    /\ \E g \in 1..Len(groups_of(DuplicatesFile(path).json)) :
          same_ids(track_ids, track_ids_of(tracks_of(
                       groups_of(DuplicatesFile(path).json)[g])))
    /\ add_to_allowlist(track_ids, allowlist_file, type) # allowlist_file
    /\ allowlist_file' = InvalidFile
    /\ pending' = [state |-> "open", old |-> allowlist_file,
                   new |-> add_to_allowlist(track_ids, allowlist_file, type)]
    /\ mode' = "writing"
    /\ call' = [made |-> TRUE, track_ids |-> track_ids, type |-> type,
                before |-> allowlist_file]
    /\ accepted' = Accept(path, type, track_ids)
    /\ exit_status' = "none"
    /\ UNCHANGED <<tracks, library_exists, metadata_file, location_file, duplicates_path,
                   duplicate_groups, duplicate_type, group_index, current_pos,
                   marked_groups>>

\* ENTER in main_curses with marked groups, up to
\* `with open(allowlist_path, 'w')`
ArrowEnterOpen ==
    /\ UNCHANGED evaluation
    /\ mode = "arrow"
    /\ marked_groups # {}
    /\ \A idx \in marked_groups : idx < Len(duplicate_groups)
    /\ \E order \in Orders(marked_groups) :
          pending' = [state |-> "open", old |-> allowlist_file,
                      new |-> save_marked_groups(allowlist_file,
                                  duplicate_groups, duplicate_type, order)]
    /\ allowlist_file' = InvalidFile
    /\ duplicates_path' = "none"
    /\ duplicate_groups' = <<>>
    /\ duplicate_type' = "none"
    /\ group_index' = 0
    /\ current_pos' = 0
    /\ marked_groups' = {}
    /\ mode' = "writing"
    /\ call' = NoCall
    /\ exit_status' = "none"
    /\ UNCHANGED <<tracks, library_exists, metadata_file, location_file, accepted>>

\* json.dump(allowlist, f, indent=2) and the close of the file
Dump ==
    /\ UNCHANGED evaluation
    /\ mode = "writing"
    /\ allowlist_file' = pending.new
    /\ pending' = [pending EXCEPT !.state = "done"]
    /\ mode' = "idle"
    /\ exit_status' = "ok"
    /\ UNCHANGED <<tracks, library_exists, metadata_file, location_file, duplicates_path,
                   duplicate_groups, duplicate_type, group_index, current_pos,
                   marked_groups, call, accepted>>

\* the process is killed between the open and the end of json.dump
Crash ==
    /\ UNCHANGED evaluation
    /\ mode = "writing"
    /\ pending' = [pending EXCEPT !.state = "crashed"]
    /\ mode' = "idle"
    /\ exit_status' = "killed"
    /\ UNCHANGED <<tracks, library_exists, allowlist_file, metadata_file, location_file,
                   duplicates_path, duplicate_groups, duplicate_type,
                   group_index, current_pos, marked_groups, call, accepted>>

----------------------------------------------------------------------------
(* Inputs: catalogs and allowlist files *)

\* track identifiers (plist keys are strings; "10" < "5" < "9" as strings)
Id5  == <<5>>
Id9  == <<9>>
Id10 == <<1, 0>>
Id7  == <<7>>

\* location URIs
LocAm  == <<"a", ".", "m">>
LocBm  == <<"b", ".", "m">>
LocBM  == <<"b", ".", "M">>
LocAf  == <<"a", ".", "f">>
LocA   == <<"a">>
LocDot == <<".", "m">>
LocDir == <<"d", ".", "m", "/", "a">>
Locations == {LocAm, LocBm, LocBM, LocAf, LocA, LocDot, LocDir}

\* a catalog record: each argument is {} (key absent) or {value}
TrackRecord(name, artist, album, time, location) ==
    LET D == (IF name # {} THEN {"Name"} ELSE {})
             \cup (IF artist # {} THEN {"Artist"} ELSE {})
             \cup (IF album # {} THEN {"Album"} ELSE {})
             \cup (IF time # {} THEN {"TotalTime"} ELSE {})
             \cup (IF location # {} THEN {"Location"} ELSE {})
    IN  [k \in D |->
            CASE k = "Name"      -> CHOOSE v \in name : TRUE
              [] k = "Artist"    -> CHOOSE v \in artist : TRUE
              [] k = "Album"     -> CHOOSE v \in album : TRUE
              [] k = "TotalTime" -> CHOOSE v \in time : TRUE
              [] k = "Location"  -> CHOOSE v \in location : TRUE]

TrackRecords ==
    { TrackRecord(n, {"ar"}, {"al"}, t, l) :
        n \in {{}, {""}, {"x"}},
        t \in {{}, {1}},
        l \in {{}} \cup {{x} : x \in Locations} }

ThirdTrackRecords ==
    { TrackRecord({"x"}, {"ar"}, {"al"}, {1}, {LocAf}),
      TrackRecord({"x"}, {}, {"al"}, {1}, {LocAm}),
      TrackRecord({"x"}, {"ar"}, {"al"}, {1}, {LocBm}),
      TrackRecord({"x"}, {"ar"}, {"al"}, {1}, {}) }

\* allowlist entries
E59   == <<Id5, Id9>>
E95   == <<Id9, Id5>>
E1059 == <<Id10, Id5, Id9>>
E5910 == <<Id5, Id9, Id10>>

Allowlist(m, l) == [metadata_duplicates |-> m, location_duplicates |-> l]

AllowlistFiles ==
    { MissingFile, InvalidFile,
      JsonFile(<<>>),
      JsonFile(EmptyAllowlist),
      JsonFile(Allowlist(<<E59>>, <<>>)),
      JsonFile(Allowlist(<<E95>>, <<>>)),
      JsonFile(Allowlist(<<>>, <<E59>>)),
      JsonFile(Allowlist(<<>>, <<E95>>)),
      JsonFile(Allowlist(<<E1059>>, <<E59>>)),
      JsonFile(Allowlist(<<E59>>, <<E1059>>)),
      JsonFile([metadata_duplicates |-> <<E59>>]),
      JsonFile([location_duplicates |-> <<E59>>]) }

----------------------------------------------------------------------------
(* SpecDetect: the two grouping functions applied to bounded inputs *)

InitDetect ==
    /\ \E r1 \in TrackRecords, r2 \in TrackRecords, r3 \in ThirdTrackRecords :
          tracks = << [id |-> Id9, rec |-> r1],
                      [id |-> Id5, rec |-> r2],
                      [id |-> Id10, rec |-> r3] >>
    /\ library_exists = TRUE
    /\ allowlist_file \in AllowlistFiles
    /\ metadata_file = MissingFile
    /\ location_file = MissingFile
    /\ SessionIdle
    /\ exit_status = "none"
    /\ call = NoCall
    /\ accepted = {}
    /\ pending = NoPending
    /\ NoEvaluation

NextDetect == AnalysisRun

SpecDetect == InitDetect /\ [][NextDetect]_vars

----------------------------------------------------------------------------
(* Spec: analysis runs and review sessions over a catalog that stays the same *)

RecAm   == TrackRecord({"x"}, {"ar"}, {"al"}, {1}, {LocAm})
RecBm   == TrackRecord({"x"}, {"ar"}, {"al"}, {1}, {LocBm})
RecBM   == TrackRecord({"x"}, {"ar"}, {"al"}, {1}, {LocBM})
RecAf   == TrackRecord({"x"}, {"ar"}, {"al"}, {1}, {LocAf})
RecNone == TrackRecord({"x"}, {"ar"}, {"al"}, {1}, {})

Catalog(r1, r2, r3, r4) ==
    << [id |-> Id9, rec |-> r1], [id |-> Id5, rec |-> r2],
       [id |-> Id10, rec |-> r3], [id |-> Id7, rec |-> r4] >>

Catalogs ==
    { Catalog(RecAm, RecBm, RecBM, RecAf),
      Catalog(RecAm, RecAm, RecAf, RecAf),
      Catalog(RecAm, RecAm, RecBm, RecNone),
      Catalog(RecAm, RecBm, RecAf, RecAf),
      Catalog(RecAm, RecBm, RecNone, RecAf) }

TrackIds == {Id9, Id5, Id10, Id7}

\* the lists of two or more distinct identifiers
IdLists ==
    UNION { {s \in [1..n -> TrackIds] :
                \A a, b \in 1..n : s[a] = s[b] => a = b} : n \in 2..4 }

Paths == {"metadata_file", "location_file"}
Types == {"metadata_duplicates", "location_duplicates"}
Inputs == {"y", "Y", "n", "q"}

Init ==
    /\ tracks \in Catalogs
    /\ library_exists = TRUE
    /\ allowlist_file \in AllowlistFiles
    /\ metadata_file = MissingFile
    /\ location_file = MissingFile
    /\ SessionIdle
    /\ exit_status = "none"
    /\ call = NoCall
    /\ accepted = {}
    /\ pending = NoPending
    /\ NoEvaluation

Next ==
    \/ AnalysisRun
    \/ \E path \in Paths : TextStart(path)
    \/ \E input \in Inputs : TextAnswer(input)
    \/ \E path \in Paths : ArrowStart(path)
    \/ \E key \in Keys : ArrowKey(key)
    \/ \E path \in Paths, track_ids \in IdLists, type \in Types :
          AddToAllowlist(path, track_ids, type)

Spec == Init /\ [][Next]_vars

\* SpecCrash: the saves taken step by step, with a process that can be killed
NextCrash ==
    \/ AnalysisRun
    \/ \E path \in Paths, track_ids \in IdLists, type \in Types :
          AddOpen(path, track_ids, type)
    \/ \E path \in Paths : ArrowStart(path)
    \/ \E key \in Keys \ {"ENTER"} : ArrowKey(key)
    \/ ArrowEnterOpen
    \/ Dump
    \/ Crash

SpecCrash == Init /\ [][NextCrash]_vars

----------------------------------------------------------------------------
(* evaluate_duplicates.py: the evaluation of the duplicate groups

   The library XML is the list root.findall('.//dict') gives: its dict
   elements in document order, each the sequence of its child elements
   [tag, text].  The text of a key element is a string; the text of an
   integer element is a sequence of one-character strings, parsed by int();
   the text of the Track ID value is the identifier (a digit sequence).
   Score is kept exactly, in millionths, where Python holds a float.        *)

\* d[k] = v on a dict
put(d, k, v) == [x \in DOMAIN d \cup {k} |-> IF x = k THEN v ELSE d[x]]

\* str.startswith(prefix)
startswith(s, prefix) ==
    /\ Len(s) >= Len(prefix)
    /\ SubSeq(s, 1, Len(prefix)) = prefix

FileScheme == <<"f", "i", "l", "e", ":", "/", "/">>
Pct20 == <<"%", "2", "0">>

\* str.replace('%20', ' ')
RECURSIVE replace_pct20(_)
replace_pct20(s) ==
    IF s = <<>> THEN <<>>
    ELSE IF startswith(s, Pct20)
         THEN <<" ">> \o replace_pct20(SubSeq(s, Len(Pct20) + 1, Len(s)))
         ELSE <<Head(s)>> \o replace_pct20(Tail(s))

\* location[7:].replace('%20', ' ')
file_path_of(location) ==
    replace_pct20(SubSeq(location, Len(FileScheme) + 1, Len(location)))

Digits == {"0", "1", "2", "3", "4", "5", "6", "7", "8", "9"}

digit_value(c) ==
    CASE c = "0" -> 0 [] c = "1" -> 1 [] c = "2" -> 2 [] c = "3" -> 3
      [] c = "4" -> 4 [] c = "5" -> 5 [] c = "6" -> 6 [] c = "7" -> 7
      [] c = "8" -> 8 [] c = "9" -> 9

\* int(text) succeeds: an optional sign, then one digit or more
int_ok(text) ==
    LET digits == IF text # <<>> /\ Head(text) \in {"-", "+"}
                  THEN Tail(text) ELSE text
    IN  /\ digits # <<>>
        /\ \A i \in 1..Len(digits) : digits[i] \in Digits

RECURSIVE digits_value(_)
digits_value(digits) ==
    IF digits = <<>> THEN 0
    ELSE 10 * digits_value(SubSeq(digits, 1, Len(digits) - 1))
         + digit_value(digits[Len(digits)])

\* int(text), for a text int() accepts
int_of(text) ==
    IF Head(text) = "-" THEN 0 - digits_value(Tail(text))
    ELSE IF Head(text) = "+" THEN digits_value(Tail(text))
    ELSE digits_value(text)

\* the element after the first key 'Track ID' of a dict element, if any
has_track_id(dict_elem) ==
    \E i \in 1..Len(dict_elem) :
        dict_elem[i].tag = "key" /\ dict_elem[i].text = "Track ID"

track_id_elem(dict_elem) ==
    dict_elem[SetMin({i \in 1..Len(dict_elem) :
                         dict_elem[i].tag = "key"
                         /\ dict_elem[i].text = "Track ID"}) + 1]

\* tracks_dict after the first n dict elements: a later element with the
\* same Track ID replaces the earlier one
RECURSIVE tracks_dict_upto(_, _)
tracks_dict_upto(dicts, n) ==
    IF n = 0 THEN <<>>
    ELSE LET prev == tracks_dict_upto(dicts, n - 1)
         IN  IF has_track_id(dicts[n])
             THEN put(prev, track_id_elem(dicts[n]).text, dicts[n])
             ELSE prev

tracks_dict_of(dicts) == tracks_dict_upto(dicts, Len(dicts))

\* the keys whose value goes through int(), and the criterion each one sets
IntKeys == {"Size", "Bit Rate", "Sample Rate", "Play Count", "Rating"}

criterion_of(key) ==
    CASE key = "Size"        -> "FileSize"
      [] key = "Bit Rate"    -> "BitRate"
      [] key = "Sample Rate" -> "SampleRate"
      [] key = "Play Count"  -> "PlayCount"
      [] key = "Rating"      -> "Rating"

\* int(value_elem.text) raises for some child of the element
int_raises(track_dict) ==
    \E i \in 1..Len(track_dict) :
        /\ track_dict[i].tag = "key"
        /\ track_dict[i].text \in IntKeys
        /\ ~ int_ok(track_dict[i + 1].text)

\* the loop over the children of the track's element, after n children
RECURSIVE criteria_upto(_, _, _)
criteria_upto(track_dict, n, criteria) ==
    IF n = 0 THEN criteria
    ELSE LET prev == criteria_upto(track_dict, n - 1, criteria)
             elem == track_dict[n]
         IN  IF elem.tag = "key" /\ elem.text \in IntKeys
             THEN put(prev, criterion_of(elem.text),
                      int_of(track_dict[n + 1].text))
             ELSE IF elem.tag = "key" /\ elem.text = "Date Added"
                  THEN put(prev, "DateAdded", track_dict[n + 1].text)
                  ELSE prev

\* mutant: File Exists is recorded for every location
file_exists_criterion_any(location, paths) ==
    put(<<>>, "FileExists", file_path_of(location) \in paths)

\* Criteria after the location check: os.path.exists for a file:// location
file_exists_criterion(location, paths) ==
    IF startswith(location, FileScheme)
    THEN put(<<>>, "FileExists", file_path_of(location) \in paths)
    ELSE <<>>

\* the evaluation record of a report track found in tracks_dict
evaluation_of(track, track_dict, paths) ==
    LET location == get(track, "Location", <<>>)
    IN  [ TrackID  |-> track["TrackID"],
          Name     |-> get(track, "Name", "Unknown"),
          Artist   |-> get(track, "Artist", "Unknown"),
          Location |-> location,
          Criteria |-> criteria_upto(track_dict, Len(track_dict),
                           file_exists_criterion(location, paths)) ]

\* "Handle both formats of duplicates data"
duplicate_groups_of(duplicates) ==
    IF "duplicate_groups" \in DOMAIN duplicates
    THEN duplicates["duplicate_groups"]
    ELSE duplicates

tracks_to_evaluate(duplicate_group) ==
    IF "tracks" \in DOMAIN duplicate_group
    THEN duplicate_group["tracks"]
    ELSE duplicate_group

\* mutant: a track without a catalog record is evaluated with no record
RECURSIVE evaluated_group_keepall(_, _, _, _)
evaluated_group_keepall(ts, n, tracks_dict, paths) ==
    IF n = 0 THEN <<>>
    ELSE Append(evaluated_group_keepall(ts, n - 1, tracks_dict, paths),
                evaluation_of(ts[n], get(tracks_dict, ts[n]["TrackID"], <<>>),
                              paths))

\* evaluated_group after the first n tracks of the group: a track that
\* tracks_dict does not hold is skipped
RECURSIVE evaluated_group_upto(_, _, _, _)
evaluated_group_upto(ts, n, tracks_dict, paths) ==
    IF n = 0 THEN <<>>
    ELSE LET prev == evaluated_group_upto(ts, n - 1, tracks_dict, paths)
         IN  IF ts[n]["TrackID"] \in DOMAIN tracks_dict
             THEN Append(prev, evaluation_of(ts[n],
                                   tracks_dict[ts[n]["TrackID"]], paths))
             ELSE prev

\* one unit of Score is Micro millionths
Micro == 1000000

\* mutant: the file size is subtracted
Score_minus_size(criteria) ==
    (IF get(criteria, "FileExists", FALSE) THEN 1000 * Micro ELSE 0)
    + get(criteria, "BitRate", 0) * Micro
    + get(criteria, "SampleRate", 0) * (Micro \div 100)
    - get(criteria, "FileSize", 0)
    + get(criteria, "PlayCount", 0) * 5 * Micro
    + get(criteria, "Rating", 0) * 10 * Micro

\* track['Score'], in millionths
Score(criteria) ==
    (IF get(criteria, "FileExists", FALSE) THEN 1000 * Micro ELSE 0)
    + get(criteria, "BitRate", 0) * Micro
    + get(criteria, "SampleRate", 0) * (Micro \div 100)
    + get(criteria, "FileSize", 0)
    + get(criteria, "PlayCount", 0) * 5 * Micro
    + get(criteria, "Rating", 0) * 10 * Micro

with_scores(group) ==
    [i \in 1..Len(group) |-> put(group[i], "Score", Score(group[i].Criteria))]

\* mutant: on equal scores the later track goes first
RECURSIVE insert_by_score_unstable(_, _)
insert_by_score_unstable(x, s) ==
    IF s = <<>> THEN <<x>>
    ELSE IF Head(s).Score > x.Score
         THEN <<Head(s)>> \o insert_by_score_unstable(x, Tail(s))
         ELSE <<x>> \o s

\* x placed after every element whose score is not lower
RECURSIVE insert_by_score(_, _)
insert_by_score(x, s) ==
    IF s = <<>> THEN <<x>>
    ELSE IF Head(s).Score >= x.Score
         THEN <<Head(s)>> \o insert_by_score(x, Tail(s))
         ELSE <<x>> \o s

\* list.sort(key=Score, reverse=True): descending and stable
RECURSIVE sort_by_score(_)
sort_by_score(group) ==
    IF group = <<>> THEN <<>>
    ELSE insert_by_score(group[Len(group)],
                         sort_by_score(SubSeq(group, 1, Len(group) - 1)))

\* mutant: every track with the best score is kept
with_recommendations_ties(group) ==
    [i \in 1..Len(group) |->
        put(group[i], "Recommendation",
            IF group[i].Score = group[1].Score THEN "KEEP" ELSE "REMOVE")]

\* the first track is recommended, the others are not
with_recommendations(group) ==
    [i \in 1..Len(group) |->
        put(group[i], "Recommendation", IF i = 1 THEN "KEEP" ELSE "REMOVE")]

\* "Score each track in the group": nothing is done to an empty group
score_and_rank(evaluated_group) ==
    IF Len(evaluated_group) = 0 THEN evaluated_group
    ELSE with_recommendations(sort_by_score(with_scores(evaluated_group)))

\* the group stored under group_id
evaluate_group(duplicate_group, tracks_dict, paths) ==
    LET ts == tracks_to_evaluate(duplicate_group)
    IN  score_and_rank(evaluated_group_upto(ts, Len(ts), tracks_dict, paths))

\* evaluate_duplicates raises: int() fails on the record of a track that is
\* evaluated
evaluate_raises(dicts, duplicates) ==
    LET tracks_dict == tracks_dict_of(dicts)
        groups      == duplicate_groups_of(duplicates)
    IN  \E g \in 1..Len(groups) :
            LET ts == tracks_to_evaluate(groups[g])
            IN  \E n \in 1..Len(ts) :
                    /\ ts[n]["TrackID"] \in DOMAIN tracks_dict
                    /\ int_raises(tracks_dict[ts[n]["TrackID"]])

\* evaluate_duplicates: the mapping group_id -> evaluated group; every
\* group_id gets an entry, an empty list when no track was found
evaluate_duplicates(dicts, duplicates, paths) ==
    LET tracks_dict == tracks_dict_of(dicts)
        groups      == duplicate_groups_of(duplicates)
    IN  [group_id \in 0..(Len(groups) - 1) |->
            evaluate_group(groups[group_id + 1], tracks_dict, paths)]

\* save_evaluation: the mapping dumped as JSON
save_evaluation(evaluated) == JsonFile(evaluated)

\* generate_html_report: the count it prints, and the groups it gives a
\* section to (a group without tracks is skipped)
generate_html_report(evaluated) ==
    [ exists       |-> TRUE,
      total_groups |-> Cardinality(DOMAIN evaluated),
      sections     |-> {group_id \in DOMAIN evaluated :
                           Len(evaluated[group_id]) > 0} ]

\* mutant: the library file is not looked for
EvaluationRunNoLibraryCheck ==
    /\ mode = "idle"
    /\ call' = NoCall
    /\ pending' = NoPending
    /\ UNCHANGED <<tracks, library_exists, allowlist_file, metadata_file,
                   location_file, session, accepted, root, duplicates_json,
                   existing_paths>>
    /\ IF ~ duplicates_json.exists
       THEN /\ exit_status' = "exit1"
            /\ UNCHANGED <<evaluation_file, html_file>>
       ELSE IF evaluate_raises(root, duplicates_json.json)
       THEN /\ exit_status' = "ValueError"
            /\ UNCHANGED <<evaluation_file, html_file>>
       ELSE LET evaluated_duplicates ==
                    evaluate_duplicates(root, duplicates_json.json,
                                        existing_paths)
            IN  /\ evaluation_file' = save_evaluation(evaluated_duplicates)
                /\ html_file' = generate_html_report(evaluated_duplicates)
                /\ exit_status' = "ok"

\* evaluate_duplicates.main without --allowlist: parse, load, evaluate, save.
\* A missing library or duplicates file ends the process with status 1; an
\* exception of evaluate_duplicates ends it before anything is written.
EvaluationRun ==
    /\ mode = "idle"
    /\ call' = NoCall
    /\ pending' = NoPending
    /\ UNCHANGED <<tracks, library_exists, allowlist_file, metadata_file,
                   location_file, session, accepted, root, duplicates_json,
                   existing_paths>>
    /\ IF ~ library_exists \/ ~ duplicates_json.exists
       THEN /\ exit_status' = "exit1"
            /\ UNCHANGED <<evaluation_file, html_file>>
       ELSE IF evaluate_raises(root, duplicates_json.json)
       THEN /\ exit_status' = "ValueError"
            /\ UNCHANGED <<evaluation_file, html_file>>
       ELSE LET evaluated_duplicates ==
                    evaluate_duplicates(root, duplicates_json.json,
                                        existing_paths)
            IN  /\ evaluation_file' = save_evaluation(evaluated_duplicates)
                /\ html_file' = generate_html_report(evaluated_duplicates)
                /\ exit_status' = "ok"

----------------------------------------------------------------------------
(* SpecEval: the evaluation applied to bounded libraries and reports *)

Id8 == <<8>>

Elem(tag, text) == [tag |-> tag, text |-> text]

\* <key>k</key><tag>text</tag>
KeyValue(key, tag, text) == <<Elem("key", key), Elem(tag, text)>>

Text1       == <<"1">>
Text20      == <<"2", "0">>
Text50      == <<"5", "0">>
Text128     == <<"1", "2", "8">>
Text256     == <<"2", "5", "6">>
Text500000  == <<"5", "0", "0", "0", "0", "0">>
Text1000000 == <<"1", "0", "0", "0", "0", "0", "0">>
TextBad     == <<"x">>

\* the criteria part of a track's element
CriteriaElems ==
    { <<>>,
      KeyValue("Bit Rate", "integer", Text256),
      KeyValue("Bit Rate", "integer", Text128),
      KeyValue("Bit Rate", "integer", Text128)
          \o KeyValue("Rating", "integer", Text20),
      KeyValue("Sample Rate", "integer", Text50)
          \o KeyValue("Size", "integer", Text500000),
      KeyValue("Size", "integer", Text1000000),
      KeyValue("Play Count", "integer", Text1)
          \o KeyValue("Date Added", "date", "2020-01-01T00:00:00Z"),
      KeyValue("Size", "integer", TextBad),
      KeyValue("Bit Rate", "integer", Text256)
          \o KeyValue("Rating", "integer", TextBad) }

ThirdCriteriaElems ==
    { <<>>,
      KeyValue("Bit Rate", "integer", Text128),
      KeyValue("Play Count", "integer", TextBad) }

\* the element of a track in the Tracks mapping
TrackDict(track_id, criteria_elems) ==
    KeyValue("Track ID", "integer", track_id)
    \o KeyValue("Name", "string", "x")
    \o criteria_elems

\* the top-level dict of the plist, and an item of a playlist
TopDict == KeyValue("Major Version", "integer", Text1)
PlaylistItem(track_id) == KeyValue("Track ID", "integer", track_id)

\* the playlist items that follow the Tracks mapping
PlaylistItemLists ==
    { <<>>,
      <<PlaylistItem(Id9)>>,
      <<PlaylistItem(Id9), PlaylistItem(Id5), PlaylistItem(Id10)>> }

Roots ==
    { <<TopDict, TrackDict(Id9, c1), TrackDict(Id5, c2), TrackDict(Id10, c3)>>
          \o items :
        c1 \in CriteriaElems, c2 \in CriteriaElems,
        c3 \in ThirdCriteriaElems, items \in PlaylistItemLists }

\* locations of report tracks, and the paths they can name
FileAB == FileScheme \o <<"/", "a", "%", "2", "0", "b">>
FileC  == FileScheme \o <<"/", "c">>
HttpC  == <<"h", "t", "t", "p", ":", "/", "/", "c">>

PathAB    == <<"/", "a", " ", "b">>
PathABRaw == <<"/", "a", "%", "2", "0", "b">>
PathC     == <<"/", "c">>
PathHttpC == <<"c">>

ExistingPathSets ==
    { {}, {PathAB}, {PathABRaw, PathC, PathHttpC}, {PathAB, PathC, PathHttpC} }

\* a track of a metadata report and of a location report
ReportTrack(track_id, location) ==
    metadata_entry(track_id,
                   TrackRecord({"x"}, {"ar"}, {"al"}, {1}, {location}))

LocationReportTrack(track_id) ==
    location_entry(track_id, TrackRecord({"x"}, {"ar"}, {"al"}, {1}, {FileAB}))

MetadataGroup(ts) ==
    [key |-> <<"x", "ar", "al", 1, <<>>>>, tracks |-> ts]

LocationGroup(location, ts) == [key |-> location, tracks |-> ts]

DuplicatesFiles ==
    { MissingFile,
      JsonFile(metadata_report(<<>>)),
      JsonFile(metadata_report(
          << MetadataGroup(<< ReportTrack(Id9, FileAB),
                              ReportTrack(Id5, FileC),
                              ReportTrack(Id10, HttpC) >>) >>)),
      JsonFile(metadata_report(
          << MetadataGroup(<< ReportTrack(Id10, HttpC),
                              ReportTrack(Id5, FileAB),
                              ReportTrack(Id9, FileAB) >>) >>)),
      JsonFile(metadata_report(
          << MetadataGroup(<< ReportTrack(Id7, FileAB),
                              ReportTrack(Id5, FileC) >>),
             MetadataGroup(<< ReportTrack(Id7, FileAB),
                              ReportTrack(Id8, FileC) >>),
             MetadataGroup(<< ReportTrack(Id10, FileC),
                              ReportTrack(Id9, FileAB) >>) >>)),
      JsonFile(location_report(
          << LocationGroup(FileAB, << LocationReportTrack(Id9),
                                      LocationReportTrack(Id5) >>) >>)) }

InitEval ==
    /\ tracks = <<>>
    /\ library_exists = TRUE
    /\ allowlist_file = MissingFile
    /\ metadata_file = MissingFile
    /\ location_file = MissingFile
    /\ SessionIdle
    /\ exit_status = "none"
    /\ call = NoCall
    /\ accepted = {}
    /\ pending = NoPending
    /\ root \in Roots
    /\ duplicates_json \in DuplicatesFiles
    /\ existing_paths \in ExistingPathSets
    /\ evaluation_file = MissingFile
    /\ html_file = NoReport

NextEval == EvaluationRun

SpecEval == InitEval /\ [][NextEval]_vars

----------------------------------------------------------------------------
(* SpecInputs: the four programs started with input files present or absent *)

\* a metadata report left by an earlier analysis
EarlierReport ==
    JsonFile(metadata_report(
        << MetadataGroup(<< ReportTrack(Id9, FileAB),
                            ReportTrack(Id5, FileC) >>) >>))

InputRoots ==
    { <<TopDict, TrackDict(Id9, c1), TrackDict(Id5, <<>>)>> :
        c1 \in {<<>>, KeyValue("Bit Rate", "integer", Text256)} }

InitInputs ==
    /\ tracks \in { Catalog(RecAm, RecAm, RecBm, RecNone),
                    Catalog(RecAm, RecBm, RecAf, RecAf) }
    /\ library_exists \in BOOLEAN
    /\ allowlist_file \in {MissingFile, InvalidFile,
                           JsonFile(Allowlist(<<E59>>, <<>>))}
    /\ metadata_file \in {MissingFile, EarlierReport}
    /\ location_file = MissingFile
    /\ SessionIdle
    /\ exit_status = "none"
    /\ call = NoCall
    /\ accepted = {}
    /\ pending = NoPending
    /\ root \in InputRoots
    /\ duplicates_json \in {MissingFile, EarlierReport}
    /\ existing_paths = {PathAB}
    /\ evaluation_file = MissingFile
    /\ html_file = NoReport

NextInputs ==
    \/ AnalysisRun
    \/ EvaluationRun
    \/ \E path \in Paths : TextStart(path)
    \/ \E input \in Inputs : TextAnswer(input)
    \/ \E path \in Paths : ArrowStart(path)
    \/ \E key \in Keys : ArrowKey(key)

SpecInputs == InitInputs /\ [][NextInputs]_vars

----------------------------------------------------------------------------
(* Vocabulary of the properties *)

\* the groups of a report file, <<>> before the first analysis run
ReportedGroups(file) == IF file.exists THEN file.json.duplicate_groups ELSE <<>>

IdSet(group_tracks) == Range(track_ids_of(group_tracks))

ReportedIdSets(file) ==
    {IdSet(ReportedGroups(file)[g].tracks) : g \in 1..Len(ReportedGroups(file))}

\* the catalog record of an identifier
TrackOf(id) == (CHOOSE n \in 1..Len(tracks) : tracks[n].id = id)
RecordOf(id) == tracks[TrackOf(id)].rec

HasRun == metadata_file.exists /\ location_file.exists

\* the groups of more than one track, before the allowlist filter
CandidateMetadata == more_than_one(metadata_groups(tracks, Len(tracks)))
CandidateLocation == more_than_one(location_groups(tracks, Len(tracks)))

\* the entries of a partition of the allowlist the detection loads
Partition(type) == get(load_allowlist(allowlist_file), type, <<>>)

SetEqualEntry(type, ids) ==
    \E n \in 1..Len(Partition(type)) : Range(Partition(type)[n]) = ids

SameField(a, b, k) ==
    /\ k \in DOMAIN a <=> k \in DOMAIN b
    /\ k \in DOMAIN a => a[k] = b[k]

SameTags(a, b) ==
    \A k \in {"Name", "Artist", "Album", "TotalTime"} : SameField(a, b, k)

Extension(rec) == lower(splitext_ext(rec["Location"]))

InSameMetadataGroup(id1, id2) ==
    \E ids \in ReportedIdSets(metadata_file) : {id1, id2} \subseteq ids

----------------------------------------------------------------------------
(* Properties of the grouping functions (SpecDetect) *)

\* C1: every group of both reports has at least 2 members, and no member is
\* a track whose catalog record has no Location.
C1_GroupsWellFormed ==
    \A file \in {metadata_file, location_file} :
        \A g \in 1..Len(ReportedGroups(file)) :
            LET members == ReportedGroups(file)[g].tracks
            IN  /\ Len(members) >= 2
                /\ \A m \in 1..Len(members) :
                      "Location" \in DOMAIN RecordOf(members[m].TrackID)

\* a metadata group without extension was reported while a track without
\* Location carries the same tags
C1_Witness ==
    /\ HasRun
    /\ \E g \in 1..Len(ReportedGroups(metadata_file)), n \in 1..Len(tracks) :
          /\ "Location" \notin DOMAIN tracks[n].rec
          /\ ReportedGroups(metadata_file)[g].file_extension = <<>>
          /\ SameTags(tracks[n].rec,
                      RecordOf(ReportedGroups(metadata_file)[g].tracks[1].TrackID))

\* C2: with an empty allowlist, two located tracks with the same tags are
\* never in one metadata group when their lower-cased extensions differ,
\* and always are when the extensions agree and the locations differ.
C2_ExtensionInKey ==
    (HasRun /\ Partition("metadata_duplicates") = <<>>
            /\ Partition("location_duplicates") = <<>>) =>
        \A a, b \in 1..Len(tracks) :
            LET ra == tracks[a].rec
                rb == tracks[b].rec
            IN  (/\ a # b
                 /\ "Location" \in DOMAIN ra
                 /\ "Location" \in DOMAIN rb
                 /\ SameTags(ra, rb)) =>
                    /\ Extension(ra) # Extension(rb) =>
                          ~ InSameMetadataGroup(tracks[a].id, tracks[b].id)
                    /\ (Extension(ra) = Extension(rb)
                        /\ ra["Location"] # rb["Location"]) =>
                          InSameMetadataGroup(tracks[a].id, tracks[b].id)

\* b.m and b.M with the same tags were grouped, a.f with the same tags
\* was kept out
C2_Witness ==
    /\ HasRun
    /\ Partition("metadata_duplicates") = <<>>
    /\ Partition("location_duplicates") = <<>>
    /\ \E a, b, c \in 1..Len(tracks) :
          /\ get(tracks[a].rec, "Location", <<>>) = LocBm
          /\ get(tracks[b].rec, "Location", <<>>) = LocBM
          /\ get(tracks[c].rec, "Location", <<>>) = LocAf
          /\ SameTags(tracks[a].rec, tracks[b].rec)
          /\ SameTags(tracks[a].rec, tracks[c].rec)
          /\ InSameMetadataGroup(tracks[a].id, tracks[b].id)
          /\ ~ InSameMetadataGroup(tracks[a].id, tracks[c].id)

\* C3: no two members of a reported metadata group have the same location.
C3_MetadataGroupsHaveDistinctLocations ==
    \A g \in 1..Len(ReportedGroups(metadata_file)) :
        LET members == ReportedGroups(metadata_file)[g].tracks
        IN  \A m, n \in 1..Len(members) :
                m # n => members[m].Location # members[n].Location

\* C4: a candidate group is not reported when the partition of its class
\* holds an entry with the same set of identifiers, in whatever order.
C4_SetEqualEntrySuppresses ==
    HasRun =>
        /\ \A g \in 1..Len(CandidateMetadata) :
              SetEqualEntry("metadata_duplicates",
                            IdSet(CandidateMetadata[g].tracks))
              => IdSet(CandidateMetadata[g].tracks)
                     \notin ReportedIdSets(metadata_file)
        /\ \A g \in 1..Len(CandidateLocation) :
              SetEqualEntry("location_duplicates",
                            IdSet(CandidateLocation[g].tracks))
              => IdSet(CandidateLocation[g].tracks)
                     \notin ReportedIdSets(location_file)

\* C6: an entry that is only in the other partition removes no group.
C6_PartitionsIndependent ==
    HasRun =>
        /\ \A g \in 1..Len(CandidateLocation) :
              LET ids == IdSet(CandidateLocation[g].tracks)
              IN  (SetEqualEntry("metadata_duplicates", ids)
                   /\ ~ SetEqualEntry("location_duplicates", ids))
                  => ids \in ReportedIdSets(location_file)
        /\ \A g \in 1..Len(CandidateMetadata) :
              LET ids == IdSet(CandidateMetadata[g].tracks)
              IN  (SetEqualEntry("location_duplicates", ids)
                   /\ ~ SetEqualEntry("metadata_duplicates", ids))
                  => ids \in ReportedIdSets(metadata_file)

\* a location group whose identifiers are stored in metadata_duplicates only
\* was reported
C6_Witness ==
    /\ HasRun
    /\ \E g \in 1..Len(CandidateLocation) :
          LET ids == IdSet(CandidateLocation[g].tracks)
          IN  /\ SetEqualEntry("metadata_duplicates", ids)
              /\ ~ SetEqualEntry("location_duplicates", ids)
              /\ ids \in ReportedIdSets(location_file)

----------------------------------------------------------------------------
(* Properties of the allowlist mutation protocol (Spec) *)

\* the identifier sets a metadata detection run on the stored allowlist emits
EmittedMetadata ==
    LET groups == find_duplicates_by_metadata(tracks,
                                              load_allowlist(allowlist_file))
    IN  {IdSet(groups[g].tracks) : g \in 1..Len(groups)}

EmittedLocation ==
    LET groups == find_duplicates_by_location(tracks,
                                              load_allowlist(allowlist_file))
    IN  {IdSet(groups[g].tracks) : g \in 1..Len(groups)}

\* C5: a group of the metadata report that was passed to add_to_allowlist
\* for metadata_duplicates is not emitted by any later metadata detection.
C5_AcceptedNeverEmittedAgain ==
    \A ids \in accepted : ids \notin EmittedMetadata

\* the entries of a partition of an allowlist file, as add_to_allowlist
\* loads it
StoredEntries(file, type) == get(load_existing_allowlist(file), type, <<>>)

IsSortedEntry(entry) ==
    \A a, b \in 1..Len(entry) : a < b => str_less(entry[a], entry[b])

\* C7: accepting a group while reviewing the location report stores it in
\* location_duplicates, leaves metadata_duplicates alone, and the next
\* location detection does not emit it.
C7_LocationReviewClosesLoop ==
    [][ /\ (mode = "text" /\ duplicates_path = "location_file" /\ call'.made) =>
            /\ \E n \in 1..Len(StoredEntries(allowlist_file',
                                             "location_duplicates")) :
                  Range(StoredEntries(allowlist_file',
                                      "location_duplicates")[n])
                      = Range(call'.track_ids)
            /\ StoredEntries(allowlist_file', "metadata_duplicates")
                  = StoredEntries(allowlist_file, "metadata_duplicates")
            /\ Range(call'.track_ids) \notin EmittedLocation'
        /\ (mode = "arrow" /\ duplicates_path = "location_file"
                /\ exit_status' = "saved") =>
            /\ \A idx \in marked_groups :
                  /\ \E n \in 1..Len(StoredEntries(allowlist_file',
                                                   "location_duplicates")) :
                        Range(StoredEntries(allowlist_file',
                                            "location_duplicates")[n])
                            = IdSet(tracks_of(duplicate_groups[idx + 1]))
                  /\ IdSet(tracks_of(duplicate_groups[idx + 1]))
                        \notin EmittedLocation'
            /\ StoredEntries(allowlist_file', "metadata_duplicates")
                  = StoredEntries(allowlist_file, "metadata_duplicates")
      ]_vars

\* C8: when the target partition already holds an entry with the same set
\* of identifiers, add_to_allowlist leaves the file as it was; and after any
\* call, adding a permutation of the same identifiers again changes nothing.
C8_AddIsIdempotent ==
    call.made =>
        /\ (\E n \in 1..Len(StoredEntries(call.before, call.type)) :
               Range(StoredEntries(call.before, call.type)[n])
                   = Range(call.track_ids))
           => allowlist_file = call.before
        /\ \A again \in IdLists :
              same_ids(again, call.track_ids)
              => add_to_allowlist(again, allowlist_file, call.type)
                     = allowlist_file

\* a call found the identifiers stored in another order and changed nothing
C8_Witness ==
    /\ call.made
    /\ allowlist_file = call.before
    /\ \E n \in 1..Len(StoredEntries(call.before, call.type)) :
          /\ Range(StoredEntries(call.before, call.type)[n])
                = Range(call.track_ids)
          /\ ~ IsSortedEntry(StoredEntries(call.before, call.type)[n])
          /\ StoredEntries(call.before, call.type)[n] # call.track_ids

\* the identifiers of the call are a strict subset or superset of a stored
\* entry of the target partition and equal to none
NearMiss ==
    /\ call.made
    /\ \E n \in 1..Len(StoredEntries(call.before, call.type)) :
          LET e == Range(StoredEntries(call.before, call.type)[n])
          IN  e # Range(call.track_ids)
              /\ (e \subseteq Range(call.track_ids)
                  \/ Range(call.track_ids) \subseteq e)
    /\ \A n \in 1..Len(StoredEntries(call.before, call.type)) :
          Range(StoredEntries(call.before, call.type)[n])
              # Range(call.track_ids)

\* C9: on a strict subset or superset of a stored entry, exactly one entry
\* with the sorted identifiers is appended to the target partition and every
\* other entry of both partitions is kept in place.
C9_ExactSetMatchOnly ==
    NearMiss =>
        LET old == StoredEntries(call.before, call.type)
            new == StoredEntries(allowlist_file, call.type)
        IN  /\ allowlist_file.exists /\ allowlist_file.valid
            /\ Len(new) = Len(old) + 1
            /\ SubSeq(new, 1, Len(old)) = old
            /\ same_ids(new[Len(new)], call.track_ids)
            /\ IsSortedEntry(new[Len(new)])
            /\ \A type \in Types \ {call.type} :
                  StoredEntries(allowlist_file, type)
                      = StoredEntries(call.before, type)

\* such a call happened with the identifiers given out of order
C9_Witness ==
    /\ NearMiss
    /\ ~ IsSortedEntry(call.track_ids)
    /\ Len(StoredEntries(allowlist_file, call.type))
          = Len(StoredEntries(call.before, call.type)) + 1

----------------------------------------------------------------------------
(* Properties of the save (SpecCrash) *)

\* C10: after a save, finished or interrupted, the allowlist file holds the
\* complete previous allowlist or the complete new one.
C10_SaveIsAtomic ==
    pending.state \in {"done", "crashed"} =>
        allowlist_file \in {pending.old, pending.new}

----------------------------------------------------------------------------
(* Properties of the allowlist store over time (Spec) *)

\* the entries written in a partition of the file, exactly as they are stored
RawEntries(file, type) ==
    IF file.exists /\ file.valid THEN get(file.json, type, <<>>) ELSE <<>>

\* C11: allowlist entries never expire: every entry stored in a partition of
\* the allowlist file is still stored in that partition after any step
\* (analysis run, add_to_allowlist call, text-UI step, arrow-UI save).
C11_EntriesNeverExpire ==
    [][\A type \in Types :
          \A n \in 1..Len(RawEntries(allowlist_file, type)) :
             list_contains(RawEntries(allowlist_file', type),
                           RawEntries(allowlist_file, type)[n])]_vars

\* a write happened on a partition that already held an entry
C11_Witness ==
    /\ call.made
    /\ RawEntries(call.before, call.type) # <<>>
    /\ allowlist_file # call.before

\* C12: an analysis run never creates, writes or modifies the allowlist file,
\* also when the file is missing or invalid: a step that writes the reports
\* leaves the file as it is, and the file changes only in an add_to_allowlist
\* call or in the arrow-UI save.
C12_AnalysisNeverWritesAllowlist ==
    [][/\ (metadata_file' # metadata_file \/ location_file' # location_file)
              => allowlist_file' = allowlist_file
       /\ allowlist_file' # allowlist_file
              => call'.made \/ exit_status' = "saved"]_vars

\* an analysis run has written its reports while the allowlist file was
\* missing or invalid, and the file is still so
C12_Witness ==
    /\ HasRun
    /\ exit_status = "ok"
    /\ ~ call.made
    /\ ~ (allowlist_file.exists /\ allowlist_file.valid)

----------------------------------------------------------------------------
(* Properties of the evaluation (SpecEval) *)

\* an evaluation has run to its end and saved its result
Evaluated == exit_status = "ok" /\ evaluation_file.exists

\* the mapping evaluate_duplicates returned, and the groups it was given
Output == evaluation_file.json
InputGroups == duplicates_json.json["duplicate_groups"]
InputTracks(group_id) == InputGroups[group_id + 1]["tracks"]

\* the identifiers that have an element with a Track ID in the library
CatalogIds ==
    { root[i][j + 1].text :
        <<i, j>> \in { p \in (1..Len(root)) \X (1..8) :
                          /\ p[2] < Len(root[p[1]])
                          /\ root[p[1]][p[2]].tag = "key"
                          /\ root[p[1]][p[2]].text = "Track ID" } }

\* the record of a track in the Tracks mapping: the first element with its
\* Track ID (the playlists come after the Tracks mapping)
CatalogRecord(track_id) ==
    root[SetMin({i \in 1..Len(root) :
                    /\ root[i][1].tag = "key"
                    /\ root[i][1].text = "Track ID"
                    /\ root[i][2].text = track_id})]

\* the integer recorded under a key of a catalog record, 0 when absent
RecordHas(record, key) ==
    \E j \in 1..Len(record) : record[j].tag = "key" /\ record[j].text = key

RecordText(record, key) ==
    record[SetMin({j \in 1..Len(record) :
                      record[j].tag = "key" /\ record[j].text = key}) + 1].text

RecordValue(record, key) ==
    IF RecordHas(record, key) THEN int_of(RecordText(record, key)) ELSE 0

RecordIsWellFormed(record) ==
    \A key \in IntKeys : RecordHas(record, key) => int_ok(RecordText(record, key))

\* the position of a track in a list of tracks
Position(list, track_id) ==
    SetMin({i \in 1..Len(list) : list[i]["TrackID"] = track_id})

IdsOf(list) == {list[i]["TrackID"] : i \in 1..Len(list)}

\* C13: every non-empty evaluated group has exactly one member with
\* Recommendation KEEP, every other member has REMOVE, and every member has
\* one of the two.
C13_ExactlyOneKeep ==
    Evaluated =>
        \A g \in DOMAIN Output :
            Len(Output[g]) > 0 =>
                /\ \A i \in 1..Len(Output[g]) :
                      /\ "Recommendation" \in DOMAIN Output[g][i]
                      /\ Output[g][i]["Recommendation"] \in {"KEEP", "REMOVE"}
                /\ Cardinality({i \in 1..Len(Output[g]) :
                       Output[g][i]["Recommendation"] = "KEEP"}) = 1

\* a group was evaluated whose two best tracks have the same score
C13_Witness ==
    /\ Evaluated
    /\ \E g \in DOMAIN Output :
          /\ Len(Output[g]) >= 2
          /\ Output[g][1]["Score"] = Output[g][2]["Score"]

FormulaScore(record, file_exists) ==
    (IF file_exists THEN 1000 * Micro ELSE 0)
    + RecordValue(record, "Bit Rate") * Micro
    + RecordValue(record, "Sample Rate") * (Micro \div 100)
    + RecordValue(record, "Size")
    + RecordValue(record, "Play Count") * 5 * Micro
    + RecordValue(record, "Rating") * 10 * Micro

\* C15: the score of an evaluated track is 1000 if its File Exists criterion
\* is true, plus bit rate, sample rate / 100, size / 1,000,000, play count * 5
\* and rating * 10 of its catalog record, an absent criterion counting 0
\* (in millionths here).
C15_ScoreFormula ==
    Evaluated =>
        \A g \in DOMAIN Output :
            \A i \in 1..Len(Output[g]) :
                LET record == CatalogRecord(Output[g][i]["TrackID"])
                IN  RecordIsWellFormed(record) =>
                        Output[g][i]["Score"]
                            = FormulaScore(record,
                                  get(Output[g][i]["Criteria"],
                                      "FileExists", FALSE))

\* the unscored group the evaluation builds for an input group
Unscored(g) ==
    evaluated_group_upto(InputTracks(g), Len(InputTracks(g)),
                         tracks_dict_of(root), existing_paths)

\* the criteria after one of them is increased
IntCriteria == {"BitRate", "SampleRate", "FileSize", "PlayCount", "Rating"}
Increments == {1, 30}

RaisedCriteria(criteria) ==
    { put(criteria, c, get(criteria, c, 0) + d) :
          c \in IntCriteria, d \in Increments }
    \cup (IF get(criteria, "FileExists", FALSE) THEN {}
          ELSE {put(criteria, "FileExists", TRUE)})

\* the rankings of a group after one criterion of its k-th track is increased
RankingsAfterRaise(group, k) ==
    { score_and_rank([group EXCEPT ![k]["Criteria"] = raised]) :
          raised \in RaisedCriteria(group[k]["Criteria"]) }

\* C16: increasing one criterion of one track, everything else unchanged,
\* never moves the track to a later position of the ranking, and a track
\* that was KEEP remains KEEP.
C16_ScoringIsMonotonic ==
    Evaluated =>
        \A g \in DOMAIN Output :
            \A k \in 1..Len(Unscored(g)) :
                LET id     == Unscored(g)[k]["TrackID"]
                    before == score_and_rank(Unscored(g))
                IN  \A after \in RankingsAfterRaise(Unscored(g), k) :
                        /\ Position(after, id) <= Position(before, id)
                        /\ before[Position(before, id)]["Recommendation"]
                              = "KEEP"
                           => after[Position(after, id)]["Recommendation"]
                                 = "KEEP"

\* some increase moves a track that was REMOVE to the first place
C16_Witness ==
    /\ Evaluated
    /\ \E g \in DOMAIN Output :
          \E k \in 1..Len(Unscored(g)) :
              LET id == Unscored(g)[k]["TrackID"]
              IN  /\ Position(Output[g], id) > 1
                  /\ \E after \in RankingsAfterRaise(Unscored(g), k) :
                        Position(after, id) = 1

\* the sum of the criteria other than File Exists, in millionths
OtherCriteriaSum(criteria) ==
    get(criteria, "BitRate", 0) * Micro
    + get(criteria, "SampleRate", 0) * (Micro \div 100)
    + get(criteria, "FileSize", 0)
    + get(criteria, "PlayCount", 0) * 5 * Micro
    + get(criteria, "Rating", 0) * 10 * Micro

\* C17: a track whose location does not start with file:// (or that has no
\* location in its report record) gets no File Exists criterion and its
\* score is the sum of the other criteria, whatever exists on the filesystem.
C17_NoBonusWithoutFileScheme ==
    Evaluated =>
        \A g \in DOMAIN Output :
            \A i \in 1..Len(Output[g]) :
                ~ startswith(Output[g][i]["Location"], FileScheme) =>
                    /\ "FileExists" \notin DOMAIN Output[g][i]["Criteria"]
                    /\ Output[g][i]["Score"]
                          = OtherCriteriaSum(Output[g][i]["Criteria"])

\* a track with an http location was evaluated while the path its location
\* would give exists, and a track without a location was evaluated
C17_Witness ==
    /\ Evaluated
    /\ \E g \in DOMAIN Output :
          \E i \in 1..Len(Output[g]) :
              \/ /\ Output[g][i]["Location"] = HttpC
                 /\ PathHttpC \in existing_paths
                 /\ Output[g][i]["Score"] > 0
              \/ /\ Output[g][i]["Location"] = <<>>
                 /\ PathAB \in existing_paths
                 /\ Output[g][i]["Score"] > 0

\* the input groups with a track found in the catalog
ResolvableGroups ==
    {g \in 0..(Len(InputGroups) - 1) : IdsOf(InputTracks(g)) \cap CatalogIds # {}}

\* C18: a group none of whose tracks is found in the catalog has no entry in
\* the evaluation output, is not counted in the HTML report, and no error is
\* raised.
C18_UnresolvableGroupOmitted ==
    Evaluated =>
        /\ \A g \in 0..(Len(InputGroups) - 1) :
              g \notin ResolvableGroups => g \notin DOMAIN Output
        /\ html_file.total_groups = Cardinality(ResolvableGroups)

\* C19: a malformed value of Size, Bit Rate, Sample Rate, Play Count or
\* Rating in the record of an evaluated track raises no error: the evaluation
\* ends normally and the other tracks and groups are evaluated.
C19_MalformedValueTreatedAsAbsent ==
    (duplicates_json.exists /\ exit_status # "none") =>
        /\ exit_status = "ok"
        /\ evaluation_file.exists
        /\ \A g \in ResolvableGroups :
              /\ g \in DOMAIN Output
              /\ IdsOf(Output[g]) = IdsOf(InputTracks(g)) \cap CatalogIds

\* C20: an evaluated group holds exactly the members of the input group whose
\* identifier is found in the catalog, each once, and each of them is scored
\* and given a recommendation.
C20_MissingMembersDropped ==
    Evaluated =>
        \A g \in DOMAIN Output :
            /\ IdsOf(Output[g]) = IdsOf(InputTracks(g)) \cap CatalogIds
            /\ Len(Output[g]) = Cardinality(IdsOf(Output[g]))
            /\ \A i \in 1..Len(Output[g]) :
                  {"Score", "Recommendation"} \subseteq DOMAIN Output[g][i]

\* a group with a member outside the catalog and a member inside it was
\* evaluated
C20_Witness ==
    /\ Evaluated
    /\ \E g \in DOMAIN Output :
          /\ Len(Output[g]) > 0
          /\ ~ (IdsOf(InputTracks(g)) \subseteq CatalogIds)

----------------------------------------------------------------------------
(* Properties of the error handling (SpecInputs, Spec) *)

\* the report files, the evaluation outputs and the allowlist file
OutputFiles ==
    <<metadata_file, location_file, evaluation_file, html_file, allowlist_file>>

\* the process ended with status 1 and wrote nothing
ExitedEarly == exit_status' = "exit1" /\ UNCHANGED OutputFiles

\* C21: when the catalog file is absent (analysis, evaluation) or the
\* duplicates file is absent (evaluation, text review, arrow review), the
\* process ends with a non-zero status before any report is written and
\* before the allowlist file is modified.
C21_MissingInputTerminates ==
    [][/\ (AnalysisRun /\ ~ library_exists) => ExitedEarly
       /\ (EvaluationRun /\ (~ library_exists \/ ~ duplicates_json.exists))
             => ExitedEarly
       /\ \A path \in Paths :
             ((TextStart(path) \/ ArrowStart(path))
                 /\ ~ DuplicatesFile(path).exists)
             => (ExitedEarly /\ mode' = "idle")
       /\ (metadata_file' # metadata_file \/ location_file' # location_file
              \/ evaluation_file' # evaluation_file \/ html_file' # html_file)
             => library_exists
       /\ exit_status' = "exit1" => UNCHANGED OutputFiles]_vars

\* a process ended with status 1 while the library was absent, reports of
\* an earlier run and an allowlist being on disk
C21_Witness ==
    /\ exit_status = "exit1"
    /\ ~ library_exists
    /\ metadata_file.exists
    /\ duplicates_json.exists
    /\ allowlist_file.exists
    /\ ~ evaluation_file.exists

\* C22: when the allowlist file exists but is not valid JSON, no step goes on
\* as if the allowlist were empty: no report is written from it and the file
\* is not overwritten.
C22_InvalidAllowlistTerminates ==
    [][(allowlist_file.exists /\ ~ allowlist_file.valid) =>
          UNCHANGED <<allowlist_file, metadata_file, location_file>>]_vars

\* C23: whenever the protocol writes the allowlist file, starting from a
\* missing file or from a valid JSON object, the stored object has exactly
\* the keys metadata_duplicates and location_duplicates, and every entry the
\* write added is sorted ascending.
C23_FileFormatKept ==
    [][(allowlist_file' # allowlist_file
           /\ (~ allowlist_file.exists \/ allowlist_file.valid)) =>
          /\ allowlist_file'.exists /\ allowlist_file'.valid
          /\ DOMAIN allowlist_file'.json = Types
          /\ \A type \in Types :
                \A n \in 1..Len(RawEntries(allowlist_file', type)) :
                    \/ list_contains(RawEntries(allowlist_file, type),
                                     RawEntries(allowlist_file', type)[n])
                    \/ IsSortedEntry(RawEntries(allowlist_file', type)[n])]_vars

----------------------------------------------------------------------------
(* Properties of the source of the criteria (SpecEval) *)

\* C24: the criteria recorded for an evaluated track are those of its record
\* in the Tracks mapping, also when a playlist item carries the same Track ID.
C24_CriteriaFromCatalogRecord ==
    Evaluated =>
        \A g \in DOMAIN Output :
            \A i \in 1..Len(Output[g]) :
                LET record   == CatalogRecord(Output[g][i]["TrackID"])
                    criteria == Output[g][i]["Criteria"]
                IN  RecordIsWellFormed(record) =>
                        /\ \A key \in IntKeys :
                              IF RecordHas(record, key)
                              THEN /\ criterion_of(key) \in DOMAIN criteria
                                   /\ criteria[criterion_of(key)]
                                         = RecordValue(record, key)
                              ELSE criterion_of(key) \notin DOMAIN criteria
                        /\ IF RecordHas(record, "Date Added")
                           THEN /\ "DateAdded" \in DOMAIN criteria
                                /\ criteria["DateAdded"]
                                      = RecordText(record, "Date Added")
                           ELSE "DateAdded" \notin DOMAIN criteria

----------------------------------------------------------------------------
(* Properties of the allowlist filter on near misses (SpecDetect) *)

\* the partition holds an entry that is a strict subset or a strict superset
\* of the identifiers
StrictlyRelatedEntry(type, ids) ==
    \E n \in 1..Len(Partition(type)) :
        LET e == Range(Partition(type)[n])
        IN  e # ids /\ (e \subseteq ids \/ ids \subseteq e)

CandidateIdSets(candidates) ==
    {IdSet(candidates[g].tracks) : g \in 1..Len(candidates)}

\* C25: a candidate group for which the partition of its class only holds a
\* strict subset or a strict superset of its identifiers is reported with all
\* its members, and every reported group is a whole candidate group.
C25_SuppressionIsAllOrNothing ==
    HasRun =>
        /\ \A ids \in CandidateIdSets(CandidateMetadata) :
              (StrictlyRelatedEntry("metadata_duplicates", ids)
               /\ ~ SetEqualEntry("metadata_duplicates", ids))
              => ids \in ReportedIdSets(metadata_file)
        /\ \A ids \in CandidateIdSets(CandidateLocation) :
              (StrictlyRelatedEntry("location_duplicates", ids)
               /\ ~ SetEqualEntry("location_duplicates", ids))
              => ids \in ReportedIdSets(location_file)
        /\ ReportedIdSets(metadata_file) \subseteq CandidateIdSets(CandidateMetadata)
        /\ ReportedIdSets(location_file) \subseteq CandidateIdSets(CandidateLocation)

\* a metadata group of three tracks was reported in full while the allowlist
\* holds two of its identifiers as an entry
C25_Witness ==
    /\ HasRun
    /\ \E ids \in ReportedIdSets(metadata_file) :
          /\ Cardinality(ids) = 3
          /\ \E n \in 1..Len(Partition("metadata_duplicates")) :
                /\ Range(Partition("metadata_duplicates")[n]) \subseteq ids
                /\ Range(Partition("metadata_duplicates")[n]) # ids

----------------------------------------------------------------------------
(* Properties of the review sessions (Spec) *)

\* C26: in the arrow review every marked index is an index of the groups
\* list, the cursor stays in the range of a non-empty list, and the save on
\* ENTER never dereferences a group that does not exist.
C26_MarksStayInRange ==
    /\ mode = "arrow" =>
          /\ marked_groups \subseteq 0..(Len(duplicate_groups) - 1)
          /\ Len(duplicate_groups) > 0 =>
                current_pos \in 0..(Len(duplicate_groups) - 1)
    /\ exit_status # "IndexError"

\* C27: in the arrow review the allowlist file is written only on ENTER with
\* a non-empty marked set: navigation, SPACE, other keys, 'q', and ENTER with
\* nothing marked leave the file as it is.
C27_ArrowWritesOnlyOnEnter ==
    [][/\ (mode = "arrow" /\ allowlist_file' # allowlist_file) =>
              (marked_groups # {} /\ exit_status' = "saved")
       /\ \A key \in Keys :
             (ArrowKey(key) /\ (key # "ENTER" \/ marked_groups = {})) =>
                 allowlist_file' = allowlist_file]_vars

\* the cursor was moved and a group was marked while no allowlist file
\* exists: neither these events nor a following 'q' create it
C27_Witness ==
    /\ mode = "arrow"
    /\ current_pos > 0
    /\ marked_groups # {}
    /\ allowlist_file = MissingFile

\* the group the text review is presenting
Presented == duplicate_groups[group_index + 1]

StoredAsSet(file, type, ids) ==
    \E n \in 1..Len(RawEntries(file, type)) : Range(RawEntries(file, type)[n]) = ids

\* C28, as stated: groups are presented one at a time in report order; an
\* answer 'y' is stored before the next group is presented; after 'q' no
\* group is presented or added; any answer other than 'y' or 'q' leaves the
\* allowlist unchanged.
C28_TextReviewLiteral ==
    [][\A input \in Inputs :
          (mode = "text" /\ TextAnswer(input)) =>
              /\ input = "y" =>
                    StoredAsSet(allowlist_file', duplicate_type,
                                IdSet(Presented.tracks))
              /\ input = "q" =>
                    (mode' = "idle" /\ allowlist_file' = allowlist_file)
              /\ input \notin {"y", "q"} => allowlist_file' = allowlist_file
              /\ (input # "q" /\ group_index + 1 < Len(duplicate_groups)) =>
                    /\ mode' = "text"
                    /\ group_index' = group_index + 1
                    /\ duplicate_groups' = duplicate_groups]_vars

\* an answer accepts when it is y or Y: the code lower-cases it
Accepts(input) == input \in {"y", "Y"}

\* C28, amended: the same, the answer being compared after lower-casing, so
\* that 'Y' accepts the group as 'y' does.
C28_TextReviewLoop ==
    [][/\ \A input \in Inputs :
             (mode = "text" /\ TextAnswer(input)) =>
                 /\ Accepts(input) =>
                       StoredAsSet(allowlist_file', duplicate_type,
                                   IdSet(Presented.tracks))
                 /\ input = "q" =>
                       (mode' = "idle" /\ allowlist_file' = allowlist_file)
                 /\ (~ Accepts(input) /\ input # "q") =>
                       allowlist_file' = allowlist_file
                 /\ (input # "q" /\ group_index + 1 < Len(duplicate_groups)) =>
                       /\ mode' = "text"
                       /\ group_index' = group_index + 1
                       /\ duplicate_groups' = duplicate_groups
       /\ (mode = "idle" /\ mode' = "text") => group_index' = 0
       /\ (mode = "text" /\ allowlist_file' # allowlist_file) => call'.made]_vars

\* an accepted group was written to the file and the next group of the
\* report is being presented
C28_Witness ==
    /\ mode = "text"
    /\ group_index > 0
    /\ call.made
    /\ allowlist_file # call.before
    /\ StoredAsSet(allowlist_file, call.type, Range(call.track_ids))

\* add_to_allowlist called once per marked group, in the given order
RECURSIVE adds_one_by_one(_, _, _, _, _)
adds_one_by_one(file, groups, type, order, n) ==
    IF n = 0 THEN file
    ELSE add_to_allowlist(track_ids_of(tracks_of(groups[order[n] + 1])),
                          adds_one_by_one(file, groups, type, order, n - 1),
                          type)

EntrySet(file, type) == Range(RawEntries(file, type))

\* C29: after an arrow-UI save of the marked groups each partition of the
\* stored allowlist has the same set of entries as after one add_to_allowlist
\* call per marked group with the same partition, in whatever order.
C29_ArrowSaveAgreesWithAdd ==
    [][(mode = "arrow" /\ exit_status' = "saved") =>
          \A order \in Orders(marked_groups) :
              \A type \in Types :
                  EntrySet(allowlist_file', type)
                      = EntrySet(adds_one_by_one(allowlist_file,
                                                 duplicate_groups,
                                                 duplicate_type, order,
                                                 Len(order)), type)]_vars

\* an arrow-UI save left two entries or more in a partition
C29_Witness ==
    /\ exit_status = "saved"
    /\ \E type \in Types : Len(RawEntries(allowlist_file, type)) >= 2

====
